---- MODULE Spec2Model ----
(***************************************************************************)
(* A model of the array_pool crate: ArrayPool routes a capacity request to *)
(* a BufferChain (one power-of-two size class); each BufferChain keeps one *)
(* LocalBufferChain (a mutex-guarded stash of RawBuffers) per thread, a    *)
(* registry of them and a chain-wide atomic counter; a BorrowingSlice      *)
(* hands its RawBuffer back to the dropping thread's stash.                *)
(*                                                                         *)
(* A size class is identified by its exponent p; its chunk size is 2^p.    *)
(* Threads take one step per shared-memory access (an atomic load or       *)
(* read-modify-write, a lock acquisition with the accesses made under it), *)
(* so every interleaving of the code's accesses is a behaviour.            *)
(***************************************************************************)
EXTENDS Integers, Sequences, FiniteSets, TLC

\* ---------------------------------------------------------------- bounds
\* The threads of a run, the largest max_power a pool of the model is built
\* with, and the number of public calls a run makes: of the threaded runs
\* (MaxCalls), the serial runs (SerialCalls), the two-thread rent/release
\* runs (TwoCalls), the runs of every operation (OpsCalls) and the runs in
\* which stashes are destroyed (LifeCalls).
NThreads == 2
MaxPower == 5
MaxCalls == 2
SerialCalls == 3
TwoCalls == 5
OpsCalls == 2
LifeCalls == 2

\* ------------------------------------------------------ program constants
\* usize::BITS of the 64-bit targets; `1usize << x` is taken modulo it.
UsizeBits == 64
\* max_power: u8
U8Max == 255
\* `if max_power < 4` and `for x in 3..max_power`
MinPower == 3

Threads == 1..NThreads
\* The exponents a pool of the model can configure.
Powers == MinPower..(MaxPower - 1)

\* The BufferChains of a pool: empty_chain, built by BufferChain::new(0), and
\* those of chunk_map.
EmptyChain == 0
Chains == {EmptyChain} \cup Powers

Pow2(p) == 2 ^ p

\* ------------------------------------------------------------- RawBuffer
\* A slot of a buffer's memory: st is "L" (holds a constructed value v),
\* "D" (its value was destructed) or "U" (never written: what alloc or
\* alloc_zeroed left there is no constructed value of T).
Slot(st, v) == [st |-> st, v |-> v]
Live(s) == s.st = "L"

\* RawBuffer::empty(): capacity 0, pointer 0, not initialized.
RawBuffer_empty == [pointer |-> 0, capacity |-> 0, initialized |-> FALSE]

\* RawBuffer::is_empty (through Deref<[T]>): the slice has no element.
is_empty(array) == array.capacity = 0

\* The value a fabricator (FnMut() -> T) yields on its i-th call: the
\* fabricator of the model numbers its calls, which tells the elements apart.
fabricate(i) == i

\* ------------------------------------------------------------- ArrayPool
\* `1usize << x` as the exponent of the result: a shift by usize::BITS or
\* more panics with overflow checks on and shifts by x mod usize::BITS
\* with them off.
shl_one(x) == x % UsizeBits

\* ArrayPool::with_max_power: the keys of chunk_map, as exponents.
with_max_power(max_power, overflow_checks) ==
    IF max_power < MinPower + 1
    THEN [tag |-> "Err", err |-> "MaxPowerTooSmall", chunk_map |-> {}]
    ELSE IF overflow_checks /\ \E x \in MinPower..(max_power - 1) : x >= UsizeBits
    THEN [tag |-> "Panic", err |-> "shift overflow", chunk_map |-> {}]
    ELSE [tag |-> "Ok", err |-> "",
          chunk_map |-> {shl_one(x) : x \in MinPower..(max_power - 1)}]

\* The keys of a BTreeMap in iteration (ascending) order.
RECURSIVE SortedKeys(_)
SortedKeys(S) ==
    IF S = {} THEN <<>>
    ELSE LET m == CHOOSE x \in S : \A y \in S : x <= y
         IN <<m>> \o SortedKeys(S \ {m})

\* get_chain's loop with `<` for `<=`: a request equal to a class size goes one
\* class up.
RECURSIVE get_chain_loop_strict(_, _)
get_chain_loop_strict(keys, minimum_capacity) ==
    IF keys = <<>> THEN 0
    ELSE IF minimum_capacity < Pow2(Head(keys)) THEN Head(keys)
    ELSE get_chain_loop_strict(Tail(keys), minimum_capacity)

\* ArrayPool::get_chain: the loop over chunk_map, first size that fits.
RECURSIVE get_chain_loop(_, _)
get_chain_loop(keys, minimum_capacity) ==
    IF keys = <<>> THEN 0
    ELSE IF minimum_capacity <= Pow2(Head(keys)) THEN Head(keys)
    ELSE get_chain_loop(Tail(keys), minimum_capacity)

\* ArrayPool::min_size / max_size, as exponents.
min_size(map) == CHOOSE x \in map : \A y \in map : x <= y
max_size(map) == CHOOSE x \in map : \A y \in map : y <= x

\* get_chain that falls back to the largest class instead of None.
get_chain_clamped(map, minimum_capacity) ==
    IF get_chain_loop(SortedKeys(map), minimum_capacity) = 0
    THEN max_size(map)
    ELSE get_chain_loop(SortedKeys(map), minimum_capacity)

\* 0 stands for None (no exponent of a pool is 0: they start at 3).
get_chain(map, minimum_capacity) == get_chain_loop(SortedKeys(map), minimum_capacity)

\* ----------------------------------------------------------------- state
VARIABLES
    chunk_map,      \* ArrayPool.chunk_map: the exponents of the configured classes
    chunk_count,    \* BufferChain.chunk_count, per class
    chains,         \* BufferChain.chains: the registry's keys, per class
    chains_lock,    \* the owner of the registry mutex, per class (0: free)
    local_chain,    \* the stash of each thread, per class: <<"none">> or <<"some", Vec>>
    list_lock,      \* the owner of each stash mutex (0: free)
    mem,            \* the allocated blocks: pointer -> sequence of slots
    held,           \* the BorrowingSlices each thread owns
    pc,             \* each thread's position
    op,             \* each thread's frame: the locals of the running call
    faults,         \* history: the element-lifetime faults that happened
    calls,          \* history: the number of public calls made so far
    obs,            \* history: the last completed call and the high-water marks
    harness,        \* how the run drives the pool (fixed by the initial state)
    ctor            \* a call of ArrayPool::with_max_power and its result

vars == <<chunk_map, chunk_count, chains, chains_lock, local_chain, list_lock,
          mem, held, pc, op, faults, calls, obs, harness, ctor>>

poolvars == <<chunk_count, chains, chains_lock, local_chain, list_lock>>

NoLocal == <<"none">>
HasLocal(c, t) == local_chain[c][t][1] = "some"
Stash(c, t) == local_chain[c][t][2]
SomeLocal(v) == <<"some", v>>

\* ---------------------------------------------------------------- frames
\* The locals of a running call. kind: the public call ("rent", "drop",
\* "expand", "expand_err": an expand_buffer that returns Err, "shrink",
\* "clone"); chain: the BufferChain a rent runs on; mode: how a fresh buffer
\* is initialized; array: the RawBuffer in hand; iter: the registry keys
\* borrow_from_other_chains has still to visit; old: the BorrowingSlice being
\* dropped, resized or cloned; new: expand_buffer's and shrink_buffer's
\* new_buffer; res: the error the thread's last call returned; locked:
\* whether the call has acquired a mutex so far.
Frame(kind, chain, mode, old) ==
    [kind |-> kind, chain |-> chain, mode |-> mode, array |-> RawBuffer_empty,
     iter |-> <<>>, remove_queue |-> <<>>, old |-> old, new |-> old, res |-> "",
     locked |-> FALSE]

\* The calls that end by returning new_buffer after dropping old_buffer.
Resizes == {"expand", "shrink"}

NoHandle == [array |-> RawBuffer_empty, chain |-> 0, initialized |-> FALSE]
NoOp == Frame("none", 0, "", NoHandle)
Failed(err) == [NoOp EXCEPT !.res = err]

BorrowingSlice(array, chain, initialized) ==
    [array |-> array, chain |-> chain, initialized |-> initialized]

RemoveAt(s, i) == SubSeq(s, 1, i - 1) \o SubSeq(s, i + 1, Len(s))

RentPcs == {"rent_load", "rent_local", "rent_local_dec", "scan_lock", "scan_visit",
            "scan_dec", "scan_end", "rent_new"}
DropPcs == {"drop_get_local", "drop_push", "drop_inc"}

\* ------------------------------------------------------------- the harness
\* sched: "threads" (the threads run in parallel, as in threading_test) or
\* "serial" (a call runs to its end before the next one starts, as in
\* test_vec); budget: the public calls of the run; max_held: the handles a
\* thread holds at a time; handoff: whether a thread also drops or expands
\* the handles another thread rented (BorrowingSlice is Send: the threads of
\* threading_test return their slices to the joining thread, which drops
\* them); history: the part of obs that is kept ("none", "last": the last
\* completed call, "marks": the high-water marks).
Harness(sched, budget, max_held, handoff, history) ==
    [sched |-> sched, budget |-> budget, max_held |-> max_held, handoff |-> handoff,
     history |-> history]

\* The threads whose handles thread t may drop or expand.
Owners(t) == IF harness.handoff THEN Threads ELSE {t}

\* held without the i-th handle of thread u.
Without(u, i) == [held EXCEPT ![u] = RemoveAt(@, i)]

\* Thread t may take its next step.
Sched(t) ==
    harness.sched = "serial" => \A u \in Threads \ {t} : pc[u] = "idle"

\* Thread t may make a public call.
MayCall(t) ==
    /\ pc[t] = "idle"
    /\ Sched(t)
    /\ calls < harness.budget

Max(a, b) == IF a >= b THEN a ELSE b

RECURSIVE Sum(_, _)
Sum(f, S) ==
    IF S = {} THEN 0
    ELSE LET x == CHOOSE y \in S : TRUE IN f[x] + Sum(f, S \ {x})

\* The BorrowingSlices alive in a thread: those it holds and those of its
\* frame (the slice a drop is returning, expand_buffer's old_buffer and, once
\* rented, its new_buffer).
Alive(h, p, o, t) ==
    Len(h[t])
    + (IF p[t] \in DropPcs THEN (IF o[t].kind \in Resizes THEN 2 ELSE 1) ELSE 0)
    + (IF p[t] \in RentPcs /\ o[t].kind \in Resizes \cup {"clone"} THEN 1 ELSE 0)

Outstanding(h, p, o) == Sum([t \in Threads |-> Alive(h, p, o, t)], Threads)

\* ... and one more for every rent on its way to a BorrowingSlice.
Busy(h, p, o) ==
    Sum([t \in Threads |-> Alive(h, p, o, t) + (IF p[t] \in RentPcs THEN 1 ELSE 0)],
        Threads)

NoCall == [thread |-> 0, kind |-> "none", chain |-> 0, pointer |-> 0]
NoObs == [last |-> NoCall, hw |-> 0, hw_busy |-> 0]

\* The call thread t completes with this step, if any: what it was, on which
\* chain, and the block it took from or gave to the pool.
Completed(t) ==
    IF pc'[t] # "idle" THEN obs.last
    ELSE IF pc[t] = "idle" /\ op'[t].res # "" THEN
        [thread |-> t, kind |-> "failed", chain |-> 0, pointer |-> 0]
    ELSE IF pc[t] = "idle" THEN
        [thread |-> t, kind |-> "other", chain |-> 0, pointer |-> 0]
    ELSE IF op[t].kind = "rent" THEN
        [thread |-> t, kind |-> "rent", chain |-> op[t].chain,
         pointer |-> held'[t][Len(held'[t])].array.pointer]
    ELSE IF op[t].kind = "drop" THEN
        [thread |-> t, kind |-> "drop", chain |-> op[t].old.chain,
         pointer |-> Stash(op[t].old.chain, t)[Len(Stash(op[t].old.chain, t))].pointer]
    ELSE [thread |-> t, kind |-> op[t].kind, chain |-> 0, pointer |-> 0]

\* The history variables after a step of thread t (the last conjunct of
\* every action: it reads the step's new state).
History(t) ==
    obs' = CASE harness.history = "last" -> [obs EXCEPT !.last = Completed(t)]
             [] harness.history = "marks" ->
                  [obs EXCEPT !.hw = Max(@, Outstanding(held', pc', op')),
                              !.hw_busy = Max(@, Busy(held', pc', op'))]
             [] OTHER -> obs

\* RawBuffer::new(capacity, zeroed) for capacity > 0: a fresh block at the next
\* address, its slots unwritten or zero bytes.
RawBuffer_new(capacity, zeroed) ==
    [buffer |-> [pointer |-> Len(mem) + 1, capacity |-> capacity, initialized |-> FALSE],
     slots |-> [i \in 1..capacity |-> Slot("U", 0)]]

\* BufferChain::new_array: RawBuffer::new, then ptr::write of fabricator()
\* into every slot.
new_array(c) ==
    LET b == RawBuffer_new(Pow2(c), FALSE)
    IN [buffer |-> b.buffer,
        slots |-> [i \in 1..Pow2(c) |-> Slot("L", fabricate(i))]]

\* BufferChain::new_uninitialized
new_uninitialized(c, zeroed) == RawBuffer_new(Pow2(c), zeroed)

\* BufferChain::get_local: the thread's LocalBufferChain, created and
\* registered under the registry lock on the thread's first touch.
get_local(t, c) ==
    IF HasLocal(c, t)
    THEN UNCHANGED <<local_chain, chains>>
    ELSE /\ chains_lock[c] = 0
         /\ local_chain' = [local_chain EXCEPT ![c][t] = SomeLocal(<<>>)]
         /\ chains' = [chains EXCEPT ![c] = @ \cup {t}]

\* drop_in_place of every slot of a block; destructing a slot that holds no
\* constructed value is recorded in faults.
NewFaults(slots) ==
    {"double_destruct" : i \in {j \in DOMAIN slots : slots[j].st = "D"}}
    \cup {"destruct_unconstructed" : i \in {j \in DOMAIN slots : slots[j].st = "U"}}

drop_in_place_all(slots) == [i \in DOMAIN slots |-> Slot("D", 0)]

\* ------------------------------------------------------- Drop and returns
Goto(t, label, frame) ==
    /\ pc' = [pc EXCEPT ![t] = label]
    /\ op' = [op EXCEPT ![t] = frame]

\* The end of a drop: of a caller's drop, or of expand_buffer's, which then
\* returns Ok(new_buffer), or Err when it could rent none.
drop_finish(t, frame, hd) ==
    /\ held' = IF frame.kind \in Resizes
               THEN [hd EXCEPT ![t] = Append(@, frame.new)]
               ELSE hd
    /\ Goto(t, "idle", IF frame.kind = "expand_err"
                       THEN Failed("MaxChunkSizeNotSufficient") ELSE NoOp)

\* A Drop for BorrowingSlice without the early return for the empty buffer.
drop_start_pushing(t, h, frame, m, hd) ==
    LET live == h.initialized /\ ~is_empty(h.array) IN
    /\ mem' = IF live THEN [m EXCEPT ![h.array.pointer] = drop_in_place_all(@)] ELSE m
    /\ faults' = IF live THEN faults \cup NewFaults(m[h.array.pointer]) ELSE faults
    /\ held' = hd
    /\ Goto(t, "drop_get_local", [frame EXCEPT !.old = h])

\* Drop for BorrowingSlice, up to the call of get_local: nothing to do for the
\* empty buffer; the slots are destructed when the handle says they are live.
drop_start(t, h, frame, m, hd) ==
    IF is_empty(h.array)
    THEN /\ mem' = m
         /\ UNCHANGED faults
         /\ drop_finish(t, frame, hd)
    ELSE /\ mem' = IF h.initialized
                   THEN [m EXCEPT ![h.array.pointer] = drop_in_place_all(@)]
                   ELSE m
         /\ faults' = IF h.initialized
                      THEN faults \cup NewFaults(m[h.array.pointer])
                      ELSE faults
         /\ held' = hd
         /\ Goto(t, "drop_get_local", [frame EXCEPT !.old = h])

\* expand_buffer without its swaps.
swap_front_none(m, old, new, n) == m

\* swap(&mut old_buffer[i], &mut new_buffer[i]) for i in 0..n
swap_front(m, old, new, n) ==
    IF n = 0 THEN m
    ELSE [m EXCEPT ![old.pointer] = [i \in 1..old.capacity |->
                                       IF i <= n THEN m[new.pointer][i] ELSE m[old.pointer][i]],
                   ![new.pointer] = [i \in 1..new.capacity |->
                                       IF i <= n THEN m[old.pointer][i] ELSE m[new.pointer][i]]]

\* An expand_buffer and shrink_buffer that drop old_buffer with its live flag
\* as it was.
expand_continue_live(t, new_buffer, m) ==
    LET old == op[t].old
        n == IF op[t].kind = "shrink"
             THEN old.array.capacity \div 2
             ELSE old.array.capacity
    IN drop_start(t, old, [op[t] EXCEPT !.new = new_buffer],
                  swap_front(m, old.array, new_buffer.array, n), held)

\* expand_buffer and shrink_buffer once their rent returned new_buffer: the
\* swaps (old_size of them in expand_buffer, new_size = old_size / 2 in
\* shrink_buffer), the old handle marked not live and dropped.
expand_continue(t, new_buffer, m) ==
    LET old == op[t].old
        n == IF op[t].kind = "shrink"
             THEN old.array.capacity \div 2
             ELSE old.array.capacity
        m2 == swap_front(m, old.array, new_buffer.array, n)
    IN drop_start(t, [old EXCEPT !.initialized = FALSE],
                  [op[t] EXCEPT !.new = new_buffer], m2, held)

\* Clone for BorrowingSlice once it has new_buffer: ptr::write of
\* self[i].clone() for i in 0..self.len(), and the clone built around
\* new_buffer, initialized; self goes back to its owner. Cloning a slot that
\* holds no constructed value is recorded in faults.
clone_continue(t, array, m) ==
    LET old == op[t].old
        n == old.array.capacity
        m2 == IF n = 0 THEN m
              ELSE [m EXCEPT ![array.pointer] =
                      [i \in 1..array.capacity |->
                         IF i <= n THEN m[old.array.pointer][i] ELSE m[array.pointer][i]]]
        h == BorrowingSlice(array, old.chain, TRUE)
    IN
    /\ held' = [held EXCEPT ![t] = @ \o <<old, h>>]
    /\ mem' = m2
    /\ faults' = faults \cup
                   {"clone_unconstructed" : i \in
                        {j \in 1..n : ~Live(m[old.array.pointer][j])}}
    /\ Goto(t, "idle", NoOp)

\* The BorrowingSlice a chain's rent builds around `array`: initialized in
\* rent_with, not in rent_or_create_uninitialized.
rent_return(t, array, m) ==
    LET h == BorrowingSlice(array, op[t].chain, op[t].mode = "fabricator")
    IN IF op[t].kind = "rent"
       THEN /\ held' = [held EXCEPT ![t] = Append(@, h)]
            /\ mem' = m
            /\ UNCHANGED faults
            /\ Goto(t, "idle", NoOp)
       ELSE IF op[t].kind = "clone"
       THEN clone_continue(t, array, m)
       ELSE expand_continue(t, h, m)

\* BufferChain::rent_with / rent_or_create_uninitialized begin:
\* let local_chain = self.get_local();
chain_rent(t, frame) ==
    /\ get_local(t, frame.chain)
    /\ Goto(t, "rent_load", [frame EXCEPT !.locked = ~HasLocal(frame.chain, t)])

\* ------------------------------------------------------------ ArrayPool calls
\* The capacities a caller asks for: 0, 1, and each class size of the model
\* with its two neighbours (the last one past the largest class).
Requests == {0, 1} \cup {Pow2(p) + d : p \in Powers, d \in {0 - 1, 0, 1}}

\* ArrayPool::rent_with / rent_or_create_uninitialized: get_chain, then the
\* chain's rent, or Err(MaxChunkSizeNotSufficient).
pool_rent(t, minimum_capacity, mode) ==
    /\ MayCall(t)
    /\ Len(held[t]) < harness.max_held
    /\ LET c == get_chain(chunk_map, minimum_capacity)
       IN IF c = 0
          THEN /\ Goto(t, "idle", Failed("MaxChunkSizeNotSufficient"))
               /\ UNCHANGED <<local_chain, chains>>
          ELSE chain_rent(t, Frame("rent", c, mode, NoHandle))
    /\ calls' = calls + 1
    /\ UNCHANGED <<chunk_map, chunk_count, chains_lock, list_lock, mem, held, faults,
                   harness, ctor>>
    /\ History(t)

\* ArrayPool::rent_with (and rent, its caller with T::default)
rent_with(t) ==
    \E k \in Requests : pool_rent(t, k, "fabricator")

\* ArrayPool::rent_or_create_uninitialized
rent_or_create_uninitialized(t) ==
    \E k \in Requests : pool_rent(t, k, "uninit")

\* ------------------------------------------------------- BufferChain rent
\* A rent that takes the counter for 0 whatever it reads.
rent_load_cold(t) ==
    /\ pc[t] = "rent_load"
    /\ Sched(t)
    /\ Goto(t, "rent_new", op[t])
    /\ UNCHANGED <<chunk_map, poolvars, mem, held, faults, calls, harness, ctor>>
    /\ History(t)

\* if self.chunk_count.load(Acquire) == 0 { new } else { local_chain.borrow() ... }
rent_load(t) ==
    /\ pc[t] = "rent_load"
    /\ Sched(t)
    /\ Goto(t, IF chunk_count[op[t].chain] = 0 THEN "rent_new" ELSE "rent_local", op[t])
    /\ UNCHANGED <<chunk_map, poolvars, mem, held, faults, calls, harness, ctor>>
    /\ History(t)

\* A borrow() whose guard outlives the call when the stash is empty.
rent_local_holding(t) ==
    LET c == op[t].chain IN
    /\ pc[t] = "rent_local"
    /\ Sched(t)
    /\ list_lock[c][t] = 0
    /\ list_lock' = [list_lock EXCEPT ![c][t] = t]
    /\ IF Stash(c, t) = <<>>
       THEN /\ Goto(t, IF op[t].kind = "clone" THEN "rent_new" ELSE "scan_lock",
                    [op[t] EXCEPT !.locked = TRUE])
            /\ UNCHANGED local_chain
       ELSE /\ local_chain' = [local_chain EXCEPT ![c][t] =
                                 SomeLocal(SubSeq(Stash(c, t), 1, Len(Stash(c, t)) - 1))]
            /\ Goto(t, "rent_local_dec",
                    [op[t] EXCEPT !.array = Stash(c, t)[Len(Stash(c, t))],
                                  !.locked = TRUE])
    /\ UNCHANGED <<chunk_map, chunk_count, chains, chains_lock, mem, held, faults,
                   calls, harness, ctor>>
    /\ History(t)

\* LocalBufferChain::borrow on the thread's own stash: lock, pop; an empty
\* stash unlocks at once and the rent goes on to borrow_from_other_chains
\* (Clone for BorrowingSlice goes on to new_uninitialized).
rent_local(t) ==
    LET c == op[t].chain IN
    /\ pc[t] = "rent_local"
    /\ Sched(t)
    /\ list_lock[c][t] = 0
    /\ IF Stash(c, t) = <<>>
       THEN /\ Goto(t, IF op[t].kind = "clone" THEN "rent_new" ELSE "scan_lock",
                    [op[t] EXCEPT !.locked = TRUE])
            /\ UNCHANGED <<local_chain, list_lock>>
       ELSE /\ local_chain' = [local_chain EXCEPT ![c][t] =
                                 SomeLocal(SubSeq(Stash(c, t), 1, Len(Stash(c, t)) - 1))]
            /\ list_lock' = [list_lock EXCEPT ![c][t] = t]
            /\ Goto(t, "rent_local_dec",
                    [op[t] EXCEPT !.array = Stash(c, t)[Len(Stash(c, t))],
                                  !.locked = TRUE])
    /\ UNCHANGED <<chunk_map, chunk_count, chains, chains_lock, mem, held, faults,
                   calls, harness, ctor>>
    /\ History(t)

\* A borrow() that returns without unlocking the stash.
rent_local_dec_stuck(t) ==
    LET c == op[t].chain IN
    /\ pc[t] = "rent_local_dec"
    /\ Sched(t)
    /\ chunk_count' = [chunk_count EXCEPT ![c] = @ - 1]
    /\ rent_return(t, op[t].array, mem)
    /\ UNCHANGED <<chunk_map, chains, chains_lock, local_chain, list_lock, calls,
                   harness, ctor>>
    /\ History(t)

\* self.chunk_count.fetch_sub(1), the stash unlocked, Some(slice) returned
rent_local_dec(t) ==
    LET c == op[t].chain IN
    /\ pc[t] = "rent_local_dec"
    /\ Sched(t)
    /\ chunk_count' = [chunk_count EXCEPT ![c] = @ - 1]
    /\ list_lock' = [list_lock EXCEPT ![c][t] = 0]
    /\ rent_return(t, op[t].array, mem)
    /\ UNCHANGED <<chunk_map, chains, chains_lock, local_chain, calls, harness, ctor>>
    /\ History(t)

\* A scan that visits no entry of the registry.
scan_lock_blind(t) ==
    LET c == op[t].chain IN
    /\ pc[t] = "scan_lock"
    /\ Sched(t)
    /\ chains_lock[c] = 0
    /\ chains_lock' = [chains_lock EXCEPT ![c] = t]
    /\ Goto(t, "scan_visit", [op[t] EXCEPT !.iter = <<>>, !.remove_queue = <<>>,
                                           !.locked = TRUE])
    /\ UNCHANGED <<chunk_map, chunk_count, chains, local_chain, list_lock, mem, held,
                   faults, calls, harness, ctor>>
    /\ History(t)

\* borrow_from_other_chains: self.chains.lock(), the iteration begins
scan_lock(t) ==
    LET c == op[t].chain IN
    /\ pc[t] = "scan_lock"
    /\ Sched(t)
    /\ chains_lock[c] = 0
    /\ chains_lock' = [chains_lock EXCEPT ![c] = t]
    /\ Goto(t, "scan_visit", [op[t] EXCEPT !.iter = SortedKeys(chains[c]),
                                           !.remove_queue = <<>>,
                                           !.locked = TRUE])
    /\ UNCHANGED <<chunk_map, chunk_count, chains, local_chain, list_lock, mem, held,
                   faults, calls, harness, ctor>>
    /\ History(t)

\* A scan whose borrow() takes the last buffer of a stash and leaves it there.
scan_visit_peek(t) ==
    LET c == op[t].chain IN
    /\ pc[t] = "scan_visit"
    /\ Sched(t)
    /\ IF op[t].iter = <<>>
       THEN /\ Goto(t, "scan_end", op[t])
            /\ UNCHANGED list_lock
       ELSE LET id == Head(op[t].iter) IN
            IF ~HasLocal(c, id)
            THEN /\ Goto(t, "scan_visit", [op[t] EXCEPT !.iter = Tail(@),
                                                        !.remove_queue = Append(@, id)])
                 /\ UNCHANGED list_lock
            ELSE /\ list_lock[c][id] = 0
                 /\ IF Stash(c, id) = <<>>
                    THEN /\ Goto(t, "scan_visit", [op[t] EXCEPT !.iter = Tail(@)])
                         /\ UNCHANGED list_lock
                    ELSE /\ list_lock' = [list_lock EXCEPT ![c][id] = t]
                         /\ Goto(t, "scan_dec",
                                 [op[t] EXCEPT !.array = Stash(c, id)[Len(Stash(c, id))]])
    /\ UNCHANGED <<chunk_map, chunk_count, chains, chains_lock, local_chain, mem, held,
                   faults, calls, harness, ctor>>
    /\ History(t)

\* One turn of the loop: upgrade the entry, chain.borrow() on its stash; the
\* loop ends when the entries are exhausted.
scan_visit(t) ==
    LET c == op[t].chain IN
    /\ pc[t] = "scan_visit"
    /\ Sched(t)
    /\ IF op[t].iter = <<>>
       THEN /\ Goto(t, "scan_end", op[t])
            /\ UNCHANGED <<local_chain, list_lock>>
       ELSE LET id == Head(op[t].iter) IN
            IF ~HasLocal(c, id)
            THEN /\ Goto(t, "scan_visit", [op[t] EXCEPT !.iter = Tail(@),
                                                        !.remove_queue = Append(@, id)])
                 /\ UNCHANGED <<local_chain, list_lock>>
            ELSE /\ list_lock[c][id] = 0
                 /\ IF Stash(c, id) = <<>>
                    THEN /\ Goto(t, "scan_visit", [op[t] EXCEPT !.iter = Tail(@)])
                         /\ UNCHANGED <<local_chain, list_lock>>
                    ELSE /\ local_chain' = [local_chain EXCEPT ![c][id] =
                                   SomeLocal(SubSeq(Stash(c, id), 1, Len(Stash(c, id)) - 1))]
                         /\ list_lock' = [list_lock EXCEPT ![c][id] = t]
                         /\ Goto(t, "scan_dec",
                                 [op[t] EXCEPT !.array = Stash(c, id)[Len(Stash(c, id))]])
    /\ UNCHANGED <<chunk_map, chunk_count, chains, chains_lock, mem, held, faults,
                   calls, harness, ctor>>
    /\ History(t)

\* the fetch_sub(1) of the borrow that found a buffer, its stash unlocked; break
scan_dec(t) ==
    LET c == op[t].chain IN
    /\ pc[t] = "scan_dec"
    /\ Sched(t)
    /\ chunk_count' = [chunk_count EXCEPT ![c] = @ - 1]
    /\ list_lock' = [list_lock EXCEPT ![c][Head(op[t].iter)] = 0]
    /\ Goto(t, "scan_end", op[t])
    /\ UNCHANGED <<chunk_map, chains, chains_lock, local_chain, mem, held, faults,
                   calls, harness, ctor>>
    /\ History(t)

\* A scan that leaves the entries of its remove_queue in the registry.
scan_end_unpurged(t) ==
    /\ pc[t] = "scan_end"
    /\ Sched(t)
    /\ chains_lock' = [chains_lock EXCEPT ![op[t].chain] = 0]
    /\ IF is_empty(op[t].array)
       THEN /\ Goto(t, "rent_new", [op[t] EXCEPT !.iter = <<>>, !.remove_queue = <<>>])
            /\ UNCHANGED <<mem, held, faults>>
       ELSE rent_return(t, op[t].array, mem)
    /\ UNCHANGED <<chunk_map, chunk_count, chains, local_chain, list_lock, calls,
                   harness, ctor>>
    /\ History(t)

\* the remove_queue purged, the registry unlocked, `found` returned
scan_end(t) ==
    LET c == op[t].chain
        removed == {op[t].remove_queue[i] : i \in DOMAIN op[t].remove_queue}
    IN
    /\ pc[t] = "scan_end"
    /\ Sched(t)
    /\ chains' = [chains EXCEPT ![c] = @ \ removed]
    /\ chains_lock' = [chains_lock EXCEPT ![c] = 0]
    /\ IF is_empty(op[t].array)
       THEN /\ Goto(t, "rent_new", [op[t] EXCEPT !.iter = <<>>, !.remove_queue = <<>>])
            /\ UNCHANGED <<mem, held, faults>>
       ELSE rent_return(t, op[t].array, mem)
    /\ UNCHANGED <<chunk_map, chunk_count, local_chain, list_lock, calls, harness, ctor>>
    /\ History(t)

\* array = self.new_array(fabricator) / self.new_uninitialized(zeroed), and
\* the BorrowingSlice built around it
rent_new(t) ==
    LET c == op[t].chain IN
    \E zeroed \in BOOLEAN :
    LET b == IF op[t].mode = "fabricator"
             THEN new_array(c)
             ELSE new_uninitialized(c, zeroed)
    IN
    /\ pc[t] = "rent_new"
    /\ Sched(t)
    /\ rent_return(t, b.buffer, Append(mem, b.slots))
    /\ UNCHANGED <<chunk_map, poolvars, calls, harness, ctor>>
    /\ History(t)

\* ------------------------------------------------------------------ Drop
\* A thread drops a BorrowingSlice: one it rented or one handed to it.
drop(t) ==
    \E u \in Owners(t) : \E i \in 1..Len(held[u]) :
        /\ MayCall(t)
        /\ drop_start(t, held[u][i], Frame("drop", 0, "", held[u][i]), mem,
                      Without(u, i))
        /\ calls' = calls + 1
        /\ UNCHANGED <<chunk_map, poolvars, harness, ctor>>
        /\ History(t)

\* self.chain.get_local()
drop_get_local(t) ==
    /\ pc[t] = "drop_get_local"
    /\ Sched(t)
    /\ get_local(t, op[t].old.chain)
    /\ Goto(t, "drop_push", op[t])
    /\ UNCHANGED <<chunk_map, chunk_count, chains_lock, list_lock, mem, held, faults,
                   calls, harness, ctor>>
    /\ History(t)

\* A drop that pushes `store` without the swap: the empty buffer.
drop_push_unswapped(t) ==
    LET c == op[t].old.chain IN
    /\ pc[t] = "drop_push"
    /\ Sched(t)
    /\ list_lock[c][t] = 0
    /\ list_lock' = [list_lock EXCEPT ![c][t] = t]
    /\ local_chain' = [local_chain EXCEPT ![c][t] =
                         SomeLocal(Append(Stash(c, t), RawBuffer_empty))]
    /\ Goto(t, "drop_inc", op[t])
    /\ UNCHANGED <<chunk_map, chunk_count, chains, chains_lock, mem, held, faults,
                   calls, harness, ctor>>
    /\ History(t)

\* .chunk_linked_list.lock(); swap(&mut store, &mut self.array); push(store)
drop_push(t) ==
    LET c == op[t].old.chain IN
    /\ pc[t] = "drop_push"
    /\ Sched(t)
    /\ list_lock[c][t] = 0
    /\ list_lock' = [list_lock EXCEPT ![c][t] = t]
    /\ local_chain' = [local_chain EXCEPT ![c][t] =
                         SomeLocal(Append(Stash(c, t), op[t].old.array))]
    /\ Goto(t, "drop_inc", [op[t] EXCEPT !.old.array = RawBuffer_empty])
    /\ UNCHANGED <<chunk_map, chunk_count, chains, chains_lock, mem, held, faults,
                   calls, harness, ctor>>
    /\ History(t)

\* A drop without its fetch_add.
drop_inc_lost(t) ==
    LET c == op[t].old.chain IN
    /\ pc[t] = "drop_inc"
    /\ Sched(t)
    /\ list_lock' = [list_lock EXCEPT ![c][t] = 0]
    /\ drop_finish(t, op[t], held)
    /\ UNCHANGED <<chunk_map, chunk_count, chains, chains_lock, local_chain, mem, faults,
                   calls, harness, ctor>>
    /\ History(t)

\* self.chain.chunk_count.fetch_add(1); the guard goes out of scope
drop_inc(t) ==
    LET c == op[t].old.chain IN
    /\ pc[t] = "drop_inc"
    /\ Sched(t)
    /\ chunk_count' = [chunk_count EXCEPT ![c] = @ + 1]
    /\ list_lock' = [list_lock EXCEPT ![c][t] = 0]
    /\ drop_finish(t, op[t], held)
    /\ UNCHANGED <<chunk_map, chains, chains_lock, local_chain, mem, faults, calls,
                   harness, ctor>>
    /\ History(t)

\* ---------------------------------------------------------- expand_buffer
\* An expand_buffer whose Err branch forgets old_buffer instead of dropping it.
expand_buffer_forget(t) ==
    \E u \in Owners(t) : \E i \in 1..Len(held[u]) :
        LET old == held[u][i]
            c == get_chain(chunk_map, old.array.capacity * 2)
        IN
        /\ MayCall(t)
        /\ held' = Without(u, i)
        /\ IF c = 0
           THEN /\ Goto(t, "idle", Failed("MaxChunkSizeNotSufficient"))
                /\ UNCHANGED <<local_chain, chains>>
           ELSE chain_rent(t, Frame("expand", c, "uninit", old))
        /\ calls' = calls + 1
        /\ UNCHANGED <<chunk_map, chunk_count, chains_lock, list_lock, mem, faults,
                       harness, ctor>>
        /\ History(t)

\* ArrayPool::expand_buffer: rent_or_create_uninitialized(2 * len, false);
\* on Err the parameter old_buffer is dropped as the function returns.
expand_buffer(t) ==
    \E u \in Owners(t) : \E i \in 1..Len(held[u]) :
        LET old == held[u][i]
            new_size == old.array.capacity * 2
            c == get_chain(chunk_map, new_size)
        IN
        /\ MayCall(t)
        /\ IF c = 0
           THEN /\ drop_start(t, old, Frame("expand_err", 0, "", old), mem,
                                Without(u, i))
                /\ UNCHANGED <<local_chain, chains>>
           ELSE /\ held' = Without(u, i)
                /\ chain_rent(t, Frame("expand", c, "uninit", old))
                /\ UNCHANGED <<mem, faults>>
        /\ calls' = calls + 1
        /\ UNCHANGED <<chunk_map, chunk_count, chains_lock, list_lock, harness, ctor>>
        /\ History(t)

\* ---------------------------------------------------------- shrink_buffer
\* A shrink_buffer that rents a buffer of old_size, not of old_size / 2.
shrink_buffer_whole(t) ==
    \E u \in Owners(t) : \E i \in 1..Len(held[u]) :
        LET old == held[u][i]
            c == get_chain(chunk_map, old.array.capacity)
        IN
        /\ MayCall(t)
        /\ c # 0
        /\ held' = Without(u, i)
        /\ chain_rent(t, Frame("shrink", c, "uninit", old))
        /\ calls' = calls + 1
        /\ UNCHANGED <<chunk_map, chunk_count, chains_lock, list_lock, mem, faults,
                       harness, ctor>>
        /\ History(t)

\* ArrayPool::shrink_buffer: rent_or_create_uninitialized(len / 2, false);
\* on Err old_buffer is returned as it is.
shrink_buffer(t) ==
    \E u \in Owners(t) : \E i \in 1..Len(held[u]) :
        LET old == held[u][i]
            new_size == old.array.capacity \div 2
            c == get_chain(chunk_map, new_size)
        IN
        /\ MayCall(t)
        /\ IF c = 0
           THEN /\ held' = [Without(u, i) EXCEPT ![t] = Append(@, old)]
                /\ Goto(t, "idle", NoOp)
                /\ UNCHANGED <<local_chain, chains>>
           ELSE /\ held' = Without(u, i)
                /\ chain_rent(t, Frame("shrink", c, "uninit", old))
        /\ calls' = calls + 1
        /\ UNCHANGED <<chunk_map, chunk_count, chains_lock, list_lock, mem, faults,
                       harness, ctor>>
        /\ History(t)

\* ------------------------------------------------------------- rent_empty
\* ArrayPool::rent_empty: RawBuffer::empty() on empty_chain, initialized.
rent_empty(t) ==
    /\ MayCall(t)
    /\ Len(held[t]) < harness.max_held
    /\ held' = [held EXCEPT ![t] =
                  Append(@, BorrowingSlice(RawBuffer_empty, EmptyChain, TRUE))]
    /\ Goto(t, "idle", NoOp)
    /\ calls' = calls + 1
    /\ UNCHANGED <<chunk_map, poolvars, mem, faults, harness, ctor>>
    /\ History(t)

\* ------------------------------------------------------------------ Clone
\* Clone for BorrowingSlice begins: self.chain.get_local(), whose borrow()
\* is the step rent_local; self stays borrowed until the clone returns.
clone(t) ==
    \E u \in Owners(t) : \E i \in 1..Len(held[u]) :
        LET old == held[u][i] IN
        /\ MayCall(t)
        /\ held' = Without(u, i)
        /\ get_local(t, old.chain)
        /\ Goto(t, "rent_local",
                [Frame("clone", old.chain, "uninit", old)
                   EXCEPT !.locked = ~HasLocal(old.chain, t)])
        /\ calls' = calls + 1
        /\ UNCHANGED <<chunk_map, chunk_count, chains_lock, list_lock, mem, faults,
                       harness, ctor>>
        /\ History(t)

\* ------------------------------------------------ the end of a stash
\* A thread without handles makes no further call.
thread_exit(t) ==
    /\ pc[t] = "idle"
    /\ Sched(t)
    /\ held[t] = <<>>
    /\ pc' = [pc EXCEPT ![t] = "exited"]
    /\ UNCHANGED <<chunk_map, poolvars, mem, held, op, faults, calls, obs, harness,
                   ctor>>

\* The buffers of memory m that are not in `stash`; a deallocated buffer has
\* no slots.
dealloc(m, stash) ==
    [q \in DOMAIN m |->
        IF \E i \in DOMAIN stash : stash[i].pointer = q THEN <<>> ELSE m[q]]

\* A Drop for LocalBufferChain without its fetch_sub.
local_drop_silent(t, c) ==
    /\ pc[t] = "exited"
    /\ HasLocal(c, t)
    /\ list_lock[c][t] = 0
    /\ local_chain' = [local_chain EXCEPT ![c][t] = NoLocal]
    /\ mem' = dealloc(mem, Stash(c, t))
    /\ UNCHANGED <<chunk_map, chunk_count, chains, chains_lock, list_lock, held, pc, op,
                   faults, calls, obs, harness, ctor>>

\* Drop for LocalBufferChain, when the last Arc of the stash of a thread that
\* has ended goes: the stash locked, fetch_sub(len), then the Vec and its
\* RawBuffers dropped (Drop for RawBuffer: dealloc). The Weak in the registry
\* stays and no longer upgrades.
local_drop(t, c) ==
    /\ pc[t] = "exited"
    /\ HasLocal(c, t)
    /\ list_lock[c][t] = 0
    /\ chunk_count' = [chunk_count EXCEPT ![c] = @ - Len(Stash(c, t))]
    /\ local_chain' = [local_chain EXCEPT ![c][t] = NoLocal]
    /\ mem' = dealloc(mem, Stash(c, t))
    /\ UNCHANGED <<chunk_map, chains, chains_lock, list_lock, held, pc, op, faults,
                   calls, obs, harness, ctor>>

\* ------------------------------------------------------ with_max_power call
construct ==
    /\ ctor.res.tag = "none"
    /\ ctor' = [ctor EXCEPT !.res = with_max_power(ctor.max_power, ctor.overflow_checks)]
    /\ UNCHANGED <<chunk_map, poolvars, mem, held, pc, op, faults, calls, obs, harness>>

\* ------------------------------------------------------------------ specs
NotCalled == [tag |-> "none", err |-> "", chunk_map |-> {}]
NoCtor == [max_power |-> 0, overflow_checks |-> FALSE, res |-> NotCalled]

\* The state of a pool built by with_max_power(M) and of threads that have
\* not touched it.
Fresh(M) ==
    /\ chunk_map = with_max_power(M, TRUE).chunk_map
    /\ chunk_count = [c \in Chains |-> 0]
    /\ chains = [c \in Chains |-> {}]
    /\ chains_lock = [c \in Chains |-> 0]
    /\ local_chain = [c \in Chains |-> [t \in Threads |-> NoLocal]]
    /\ list_lock = [c \in Chains |-> [t \in Threads |-> 0]]
    /\ mem = <<>>
    /\ held = [t \in Threads |-> <<>>]
    /\ pc = [t \in Threads |-> "idle"]
    /\ op = [t \in Threads |-> NoOp]
    /\ faults = {}
    /\ calls = 0
    /\ obs = NoObs

\* The state of a pool built by with_max_power(M) after thread t rented a
\* buffer of the smallest class with a fabricator and dropped it: the buffer,
\* its elements destructed, lies in t's stash.
Warm(M, t) ==
    LET c == MinPower
        b == [pointer |-> 1, capacity |-> Pow2(c), initialized |-> FALSE]
    IN
    /\ chunk_map = with_max_power(M, TRUE).chunk_map
    /\ chunk_count = [d \in Chains |-> IF d = c THEN 1 ELSE 0]
    /\ chains = [d \in Chains |-> IF d = c THEN {t} ELSE {}]
    /\ chains_lock = [d \in Chains |-> 0]
    /\ local_chain = [d \in Chains |-> [u \in Threads |->
                         IF d = c /\ u = t THEN SomeLocal(<<b>>) ELSE NoLocal]]
    /\ list_lock = [d \in Chains |-> [u \in Threads |-> 0]]
    /\ mem = <<[i \in 1..Pow2(c) |-> Slot("D", 0)]>>
    /\ held = [u \in Threads |-> <<>>]
    /\ pc = [u \in Threads |-> "idle"]
    /\ op = [u \in Threads |-> NoOp]
    /\ faults = {}
    /\ calls = 0
    /\ obs = NoObs

\* Threads that run in parallel on one pool, new or used.
Init ==
    /\ \/ \E M \in (MinPower + 1)..MaxPower : Fresh(M)
       \/ Warm(MaxPower, 1)
    /\ harness = Harness("threads", MaxCalls, MaxCalls, TRUE, "none")
    /\ ctor = NoCtor

Next ==
    \E t \in Threads :
        \/ rent_with(t)
        \/ rent_or_create_uninitialized(t)
        \/ rent_load(t)
        \/ rent_local(t)
        \/ rent_local_dec(t)
        \/ scan_lock(t)
        \/ scan_visit(t)
        \/ scan_dec(t)
        \/ scan_end(t)
        \/ rent_new(t)
        \/ drop(t)
        \/ drop_get_local(t)
        \/ drop_push(t)
        \/ drop_inc(t)
        \/ expand_buffer(t)

Spec == Init /\ [][Next]_vars

\* Every operation of the pool, on threads that run in parallel.
InitOps ==
    /\ \/ \E M \in (MinPower + 1)..MaxPower : Fresh(M)
       \/ Warm(MaxPower, 1)
    /\ harness = Harness("threads", OpsCalls, OpsCalls, TRUE, "none")
    /\ ctor = NoCtor

NextOps ==
    \E t \in Threads :
        \/ rent_with(t)
        \/ rent_or_create_uninitialized(t)
        \/ rent_load(t)
        \/ rent_local(t)
        \/ rent_local_dec(t)
        \/ scan_lock(t)
        \/ scan_visit(t)
        \/ scan_dec(t)
        \/ scan_end(t)
        \/ rent_new(t)
        \/ drop(t)
        \/ drop_get_local(t)
        \/ drop_push(t)
        \/ drop_inc(t)
        \/ expand_buffer(t)
        \/ shrink_buffer(t)
        \/ rent_empty(t)
        \/ clone(t)

SpecOps == InitOps /\ [][NextOps]_vars

\* Every operation of a pool of one class, new or used, on threads that run in
\* parallel and end, their stashes destroyed after them.
InitLife ==
    /\ \/ Fresh(MinPower + 1)
       \/ Warm(MinPower + 1, 1)
    /\ harness = Harness("threads", LifeCalls, LifeCalls, TRUE, "none")
    /\ ctor = NoCtor

NextLife ==
    \E t \in Threads :
        \/ rent_with(t)
        \/ rent_or_create_uninitialized(t)
        \/ rent_load(t)
        \/ rent_local(t)
        \/ rent_local_dec(t)
        \/ scan_lock(t)
        \/ scan_visit(t)
        \/ scan_dec(t)
        \/ scan_end(t)
        \/ rent_new(t)
        \/ drop(t)
        \/ drop_get_local(t)
        \/ drop_push(t)
        \/ drop_inc(t)
        \/ expand_buffer(t)
        \/ shrink_buffer(t)
        \/ rent_empty(t)
        \/ clone(t)
        \/ thread_exit(t)
        \/ \E c \in Chains : local_drop(t, c)

SpecLife == InitLife /\ [][NextLife]_vars

\* The steps by which thread t goes on with the operation it is in.
Proceed(t) ==
    \/ rent_load(t)
    \/ rent_local(t)
    \/ rent_local_dec(t)
    \/ scan_lock(t)
    \/ scan_visit(t)
    \/ scan_dec(t)
    \/ scan_end(t)
    \/ rent_new(t)
    \/ drop_get_local(t)
    \/ drop_push(t)
    \/ drop_inc(t)

\* Threads that work on their own handles, on a pool that holds a released
\* buffer.
InitFair ==
    /\ Warm(MaxPower, 1)
    /\ harness = Harness("threads", OpsCalls, OpsCalls, FALSE, "none")
    /\ ctor = NoCtor

\* Every operation of the pool under a fair scheduler: a thread that can go
\* on with its operation is not left waiting forever.
SpecFair == InitFair /\ [][NextOps]_vars /\ \A t \in Threads : WF_vars(Proceed(t))

\* Rents and releases of every thread on a pool of two classes, one call at a
\* time.
InitSerial ==
    /\ Fresh(MinPower + 2)
    /\ harness = Harness("serial", SerialCalls, SerialCalls, FALSE, "last")
    /\ ctor = NoCtor

NextSerial ==
    \E t \in Threads :
        \/ rent_with(t)
        \/ rent_or_create_uninitialized(t)
        \/ rent_load(t)
        \/ rent_local(t)
        \/ rent_local_dec(t)
        \/ scan_lock(t)
        \/ scan_visit(t)
        \/ scan_dec(t)
        \/ scan_end(t)
        \/ rent_new(t)
        \/ drop(t)
        \/ drop_get_local(t)
        \/ drop_push(t)
        \/ drop_inc(t)

SpecSerial == InitSerial /\ [][NextSerial]_vars

\* Two threads that rent and release one handle at a time from the smallest
\* class of a pool, in parallel.
InitTwo ==
    /\ Fresh(MinPower + 1)
    /\ harness = Harness("threads", TwoCalls, 1, FALSE, "marks")
    /\ ctor = NoCtor

NextTwo ==
    \E t \in {1, 2} :
        \/ rent_with(t)
        \/ rent_load(t)
        \/ rent_local(t)
        \/ rent_local_dec(t)
        \/ scan_lock(t)
        \/ scan_visit(t)
        \/ scan_dec(t)
        \/ scan_end(t)
        \/ rent_new(t)
        \/ drop(t)
        \/ drop_get_local(t)
        \/ drop_push(t)
        \/ drop_inc(t)

SpecTwo == InitTwo /\ [][NextTwo]_vars

\* ArrayPool::with_max_power on every max_power: u8, with and without
\* overflow checks.
InitCtor ==
    /\ Fresh(MinPower + 1)
    /\ harness = Harness("serial", 0, 0, FALSE, "none")
    /\ ctor \in [max_power : 0..U8Max, overflow_checks : BOOLEAN, res : {NotCalled}]

NextCtor == construct

SpecCtor == InitCtor /\ [][NextCtor]_vars

\* ----------------------------------------------------------------- claims
\* The handle a rent of thread t returns with this step.
Returned(t) == held'[t][Len(held'[t])]

\* Thread t's rent (not the one inside expand_buffer) returns with this step.
RentReturns(t) ==
    /\ pc[t] \in RentPcs
    /\ op[t].kind = "rent"
    /\ pc'[t] = "idle"

\* This step is a public call of thread t (every call is counted, and a step
\* of t leaves the other threads where they are).
CallBy(t) ==
    /\ pc[t] = "idle"
    /\ calls' = calls + 1
    /\ \A u \in Threads \ {t} : pc'[u] = pc[u] /\ op'[u] = op[u]

\* The buffers in the stashes of class c.
InStashes(c) ==
    Sum([t \in Threads |-> IF HasLocal(c, t) THEN Len(Stash(c, t)) ELSE 0], Threads)

\* The places of the stashes that hold buffer b.
Copies(b) ==
    {x \in Chains \X Threads \X (1..(2 * MaxCalls + 2 * OpsCalls)) :
        /\ HasLocal(x[1], x[2])
        /\ x[3] <= Len(Stash(x[1], x[2]))
        /\ Stash(x[1], x[2])[x[3]] = b}

\* The handles that threads hold on buffer b.
Holders(b) ==
    {x \in Threads \X (1..(2 * MaxCalls + 2 * OpsCalls)) :
        /\ x[2] <= Len(held[x[1]])
        /\ held[x[1]][x[2]].array = b}

\* No thread is inside a call and no thread holds a handle.
Quiescent == \A t \in Threads : pc[t] = "idle" /\ held[t] = <<>>

\* C1: over rents in fabricator mode and releases on a chain, no slot is
\* destructed a second time without having been constructed again in between.
C1_NoDoubleDestruct == "double_destruct" \notin faults

\* C2: a handle whose live flag is set has every slot of its buffer holding a
\* constructed value.
C2_LiveFlagMeansConstructed ==
    \A t \in Threads : \A i \in 1..Len(held[t]) :
        (held[t][i].initialized /\ ~is_empty(held[t][i].array))
            => \A j \in 1..held[t][i].array.capacity :
                   Live(mem[held[t][i].array.pointer][j])

\* C3: a rent of K with 1 <= K <= max_size(), in either mode, runs on the
\* smallest class whose size is at least K (the class of size K when K is a
\* class size), and the handle a rent returns has that class's capacity.
C3_SmallestClass ==
    [][\A t \in Threads :
         /\ CallBy(t)
              => \A k \in Requests : \A mode \in {"fabricator", "uninit"} :
                   (/\ 1 <= k
                    /\ k <= Pow2(max_size(chunk_map))
                    /\ pool_rent(t, k, mode))
                   => /\ pc'[t] = "rent_load"
                      /\ op'[t].chain \in chunk_map
                      /\ k <= Pow2(op'[t].chain)
                      /\ \A p \in chunk_map : k <= Pow2(p) => op'[t].chain <= p
         /\ RentReturns(t)
              => /\ held'[t] = Append(held[t], Returned(t))
                 /\ Returned(t).chain = op[t].chain
                 /\ Returned(t).array.capacity = Pow2(op[t].chain)
                 /\ Len(mem'[Returned(t).array.pointer]) = Pow2(op[t].chain)]_vars

C3_Witness ==
    \E t \in Threads :
        /\ Len(held[t]) > 0
        /\ held[t][1].chain = MinPower + 1
        /\ held[t][1].array.capacity = Pow2(MinPower + 1)

\* C4: a rent of K larger than the largest class, in either mode, returns
\* MaxChunkSizeNotSufficient; nothing is allocated and no stash, registry or
\* counter of any chain changes.
C4_TooLargeFails ==
    [][\A t \in Threads :
         CallBy(t)
         => \A k \in Requests : \A mode \in {"fabricator", "uninit"} :
              (k > Pow2(max_size(chunk_map)) /\ pool_rent(t, k, mode))
              => /\ pc'[t] = "idle"
                 /\ op'[t].res = "MaxChunkSizeNotSufficient"
                 /\ mem' = mem
                 /\ held' = held
                 /\ poolvars' = poolvars]_vars

C4_Witness ==
    \E t \in Threads :
        /\ pc[t] = "idle"
        /\ op[t].res = "MaxChunkSizeNotSufficient"
        /\ calls = 2
        /\ Len(mem) = 1
        /\ Len(held[t]) = 1

\* C5: with_max_power(M) fails with MaxPowerTooSmall for M < 4, and for every
\* M >= 4 succeeds with exactly the classes 2^3 .. 2^(M-1), so that
\* min_size() = 2^3 and max_size() = 2^(M-1).
C5_ClassesOfEveryPower ==
    ctor.res.tag # "none"
    => IF ctor.max_power < 4
       THEN ctor.res.tag = "Err" /\ ctor.res.err = "MaxPowerTooSmall"
       ELSE /\ ctor.res.tag = "Ok"
            /\ ctor.res.chunk_map = 3..(ctor.max_power - 1)
            /\ min_size(ctor.res.chunk_map) = 3
            /\ max_size(ctor.res.chunk_map) = ctor.max_power - 1

\* C6: when a thread's rent of class C is the next call after its own release
\* of a handle of class C, the rent returns the released buffer, of the class's
\* capacity, and allocates nothing.
C6_RoundTrip ==
    [][\A t \in Threads :
         (/\ RentReturns(t)
          /\ obs.last.kind = "drop"
          /\ obs.last.thread = t
          /\ obs.last.chain = op[t].chain)
         => /\ mem' = mem
            /\ Returned(t).array.pointer = obs.last.pointer
            /\ Returned(t).array.capacity = Pow2(op[t].chain)
            /\ Returned(t).array.capacity = Len(mem[obs.last.pointer])]_vars

C6_Witness ==
    \E t \in Threads :
        /\ calls = 3
        /\ pc[t] = "idle"
        /\ obs.last.kind = "rent"
        /\ obs.last.thread = t
        /\ Len(mem) = 1
        /\ Len(held[t]) = 1
        /\ held[t][1].array.pointer = 1
        /\ \A u \in Threads \ {t} : \A c \in Powers : ~HasLocal(c, u)

\* C7: when thread B's rent of class C is the next call after thread A's
\* completed release of a handle of class C, and no third thread has touched
\* the chain, B's rent allocates nothing; unless B pops from its own stash, it
\* returns the buffer A released, found by the registry scan.
C7_CrossThreadReuse ==
    [][\A a \in Threads : \A b \in Threads \ {a} :
         (/\ RentReturns(b)
          /\ obs.last.kind = "drop"
          /\ obs.last.thread = a
          /\ obs.last.chain = op[b].chain
          /\ chains[op[b].chain] \subseteq {a, b})
         => /\ mem' = mem
            /\ pc[b] # "rent_local_dec"
                 => /\ pc[b] = "scan_end"
                    /\ Returned(b).array.pointer = obs.last.pointer]_vars

C7_Witness ==
    \E a \in Threads : \E b \in Threads \ {a} : \E c \in Powers :
        /\ calls = 3
        /\ obs.last = [thread |-> b, kind |-> "rent", chain |-> c, pointer |-> 1]
        /\ Len(mem) = 1
        /\ HasLocal(c, a)
        /\ Stash(c, a) = <<>>
        /\ Len(held[b]) = 1
        /\ held[b][1].array.pointer = 1

\* C8, as stated: once the two threads have finished, the number of buffers in
\* the stashes of the class equals the high-water mark of the handles that
\* were outstanding at the same time.
C8_EqualsHighWater ==
    Quiescent => InStashes(MinPower) = obs.hw

\* C8, amended: once the two threads have finished, the number of buffers in
\* the stashes of the class is at least the high-water mark of the handles
\* outstanding at the same time and at most the high-water mark of the handles
\* outstanding plus the rents in progress at the same time.
C8_BetweenHighWaters ==
    Quiescent
    => /\ obs.hw <= InStashes(MinPower)
       /\ InStashes(MinPower) <= obs.hw_busy
       /\ InStashes(MinPower) = Len(mem)

C8_Witness ==
    /\ Quiescent
    /\ obs.hw = 1
    /\ obs.hw_busy = 2
    /\ InStashes(MinPower) = 2

\* C9: the release of a non-empty handle by thread t creates and registers t's
\* stash of the handle's chain if t has none, appends the handle's buffer to
\* that stash and adds one to that chain's counter; no other stash, registry
\* or counter changes.
C9_ReleaseToOwnStash ==
    [][\A t \in Threads :
         LET c == op[t].old.chain
             Others == \A d \in Chains : \A u \in Threads :
                           <<d, u>> # <<c, t>> => local_chain'[d][u] = local_chain[d][u]
         IN
         /\ (pc[t] = "drop_get_local" /\ pc'[t] # pc[t])
              => /\ pc'[t] = "drop_push"
                 /\ local_chain'[c][t] =
                        (IF HasLocal(c, t) THEN local_chain[c][t] ELSE SomeLocal(<<>>))
                 /\ chains' = [chains EXCEPT ![c] = @ \cup {t}]
                 /\ t \in chains'[c]
                 /\ Others
                 /\ chunk_count' = chunk_count
         /\ (pc[t] = "drop_push" /\ pc'[t] # pc[t])
              => /\ pc'[t] = "drop_inc"
                 /\ ~is_empty(op[t].old.array)
                 /\ local_chain'[c][t] = SomeLocal(Append(Stash(c, t), op[t].old.array))
                 /\ Others
                 /\ chains' = chains
                 /\ chunk_count' = chunk_count
         /\ (pc[t] = "drop_inc" /\ pc'[t] # pc[t])
              => /\ pc'[t] = "idle"
                 /\ chunk_count' = [chunk_count EXCEPT ![c] = @ + 1]
                 /\ local_chain' = local_chain
                 /\ chains' = chains]_vars

C9_Witness ==
    \E c \in Powers : \E t \in Threads : \E u \in Threads \ {t} :
        /\ calls = 2
        /\ Quiescent
        /\ HasLocal(c, u)
        /\ Stash(c, u) = <<>>
        /\ HasLocal(c, t)
        /\ Len(Stash(c, t)) = 1
        /\ chunk_count[c] = 1

\* C10: expand_buffer of a handle of capacity c with 2c <= max_size() returns a
\* handle of capacity 2c whose first c slots hold the handle's elements in
\* their order, the old buffer holding what the new one held there; the old
\* buffer is pushed onto the calling thread's stash of the handle's class.
C10_ExpandMovesElements ==
    [][\A t \in Threads :
         LET old == op[t].old
             c == op[t].old.chain
         IN
         /\ (op[t].kind = "expand" /\ pc[t] \in RentPcs /\ pc'[t] \in DropPcs)
              => LET new == op'[t].new.array IN
                 /\ new.capacity = 2 * old.array.capacity
                 /\ Len(mem'[new.pointer]) = new.capacity
                 /\ op'[t].old.array = old.array
                 /\ \A i \in 1..old.array.capacity :
                      /\ mem'[new.pointer][i] = mem[old.array.pointer][i]
                      /\ mem'[old.array.pointer][i] =
                           (IF new.pointer <= Len(mem)
                            THEN mem[new.pointer][i] ELSE Slot("U", 0))
         /\ (op[t].kind = "expand" /\ pc[t] \in DropPcs)
              => mem'[op[t].new.array.pointer] = mem[op[t].new.array.pointer]
         /\ (op[t].kind = "expand" /\ pc[t] = "drop_push" /\ pc'[t] # pc[t])
              => /\ old.array.capacity = Pow2(c)
                 /\ local_chain'[c][t] = SomeLocal(Append(Stash(c, t), old.array))
         /\ (op[t].kind = "expand" /\ pc[t] = "drop_inc" /\ pc'[t] # pc[t])
              => /\ held'[t] = Append(held[t], op[t].new)
                 /\ local_chain' = local_chain]_vars

C10_Witness ==
    \E t \in Threads : \E i \in 1..Len(held[t]) :
        LET h == held[t][i] IN
        /\ h.chain = MinPower + 1
        /\ h.array.capacity = Pow2(MinPower + 1)
        /\ \A j \in 1..Pow2(MinPower) : mem[h.array.pointer][j] = Slot("L", fabricate(j))
        /\ \A j \in (Pow2(MinPower) + 1)..Pow2(MinPower + 1) :
               mem[h.array.pointer][j] = Slot("U", 0)
        /\ HasLocal(MinPower, t)
        /\ Len(Stash(MinPower, t)) = 1

\* C11: expand_buffer returns Err(MaxChunkSizeNotSufficient) exactly when no
\* class of the pool is as large as twice the handle's capacity; the failing
\* call pushes the handle's buffer onto the calling thread's stash of the
\* handle's chain and adds one to that chain's counter, after which the buffer
\* is in the stashes exactly once and in no handle.
C11_ExpandFailure ==
    [][\A t \in Threads :
         LET c == op[t].old.chain IN
         /\ (CallBy(t) /\ expand_buffer(t))
              => \E u \in Threads : \E i \in 1..Len(held[u]) :
                   LET old == held[u][i]
                       fits == \E p \in chunk_map : 2 * old.array.capacity <= Pow2(p)
                   IN
                   /\ held' = Without(u, i)
                   /\ Copies(old.array) = {}
                   /\ IF fits
                      THEN /\ op'[t].kind = "expand"
                           /\ pc'[t] = "rent_load"
                      ELSE /\ op'[t].kind = "expand_err"
                           /\ op'[t].old = old
                           /\ pc'[t] = "drop_get_local"
         /\ (op[t].kind = "expand_err" /\ pc[t] = "drop_get_local" /\ pc'[t] # pc[t])
              => /\ pc'[t] = "drop_push"
                 /\ op'[t] = op[t]
                 /\ held' = held
         /\ (op[t].kind = "expand_err" /\ pc[t] = "drop_push" /\ pc'[t] # pc[t])
              => /\ pc'[t] = "drop_inc"
                 /\ Copies(op[t].old.array) = {}
                 /\ local_chain'[c][t] = SomeLocal(Append(Stash(c, t), op[t].old.array))
                 /\ chunk_count' = chunk_count
                 /\ held' = held
         /\ (op[t].kind = "expand_err" /\ pc[t] = "drop_inc" /\ pc'[t] # pc[t])
              => LET b == Stash(c, t)[Len(Stash(c, t))] IN
                 /\ Cardinality(Copies(b)) = 1
                 /\ Holders(b) = {}
                 /\ local_chain' = local_chain
                 /\ chunk_count' = [chunk_count EXCEPT ![c] = @ + 1]
                 /\ held' = held
                 /\ pc'[t] = "idle"
                 /\ op'[t].res = "MaxChunkSizeNotSufficient"
         /\ (op[t].kind \in Resizes /\ pc'[t] = "idle" /\ pc[t] # "idle")
              => op'[t].res = ""]_vars

\* A failed expand_buffer of a handle of the largest class has completed: the
\* buffer is in the caller's stash and the counter of its class is one.
C11_Witness ==
    \E t \in Threads :
        /\ pc[t] = "idle"
        /\ op[t].res = "MaxChunkSizeNotSufficient"
        /\ chunk_map = MinPower..(MinPower + 1)
        /\ HasLocal(MinPower + 1, t)
        /\ Len(Stash(MinPower + 1, t)) = 1
        /\ chunk_count[MinPower + 1] = 1
        /\ \A u \in Threads : held[u] = <<>>

\* C12: shrink_buffer of a handle that no smaller class fits (its capacity is
\* that of the smallest class, or it is the empty handle) returns the handle
\* as it is, with no error: the same buffer, capacity, contents and live flag,
\* and nothing is rented, allocated or released.
C12_ShrinkFallback ==
    [][\A t \in Threads :
         (CallBy(t) /\ shrink_buffer(t))
           => \E u \in Threads : \E i \in 1..Len(held[u]) :
                LET old == held[u][i] IN
                /\ held' \in {Without(u, i),
                               [Without(u, i) EXCEPT ![t] = Append(@, old)]}
                /\ (is_empty(old.array)
                      \/ old.array.capacity = Pow2(min_size(chunk_map)))
                     => /\ pc'[t] = "idle"
                        /\ op'[t].res = ""
                        /\ held' = [Without(u, i) EXCEPT ![t] = Append(@, old)]
                        /\ mem' = mem
                        /\ poolvars' = poolvars]_vars

\* C13: shrink_buffer of a handle of capacity c > min_size() returns a handle
\* of capacity c / 2 whose slots hold the first c / 2 elements of the handle
\* in their order; the old buffer is pushed onto the calling thread's stash of
\* the handle's class.
C13_ShrinkHalves ==
    [][\A t \in Threads :
         LET old == op[t].old
             c == op[t].old.chain
             large == op[t].kind = "shrink"
                        /\ op[t].old.array.capacity > Pow2(min_size(chunk_map))
         IN
         /\ (CallBy(t) /\ shrink_buffer(t))
              => \E u \in Threads : \E i \in 1..Len(held[u]) :
                   /\ held' = Without(u, i)
                   /\ held[u][i].array.capacity > Pow2(min_size(chunk_map))
                        => /\ op'[t].kind = "shrink"
                           /\ op'[t].old = held[u][i]
                           /\ op'[t].new = held[u][i]
                           /\ pc'[t] = "rent_load"
                           /\ 2 * Pow2(op'[t].chain) = held[u][i].array.capacity
         /\ (large /\ pc[t] \in RentPcs /\ pc'[t] \in RentPcs)
              => op'[t].old = op[t].old /\ op'[t].chain = op[t].chain
         /\ (large /\ pc[t] \in RentPcs /\ pc'[t] \notin RentPcs)
              => LET new == op'[t].new.array IN
                 /\ pc'[t] = "drop_get_local"
                 /\ 2 * new.capacity = old.array.capacity
                 /\ Len(mem'[new.pointer]) = new.capacity
                 /\ op'[t].old.array = old.array
                 /\ \A i \in 1..new.capacity :
                        mem'[new.pointer][i] = mem[old.array.pointer][i]
         /\ (op[t].kind = "shrink" /\ pc[t] \in DropPcs)
              => mem'[op[t].new.array.pointer] = mem[op[t].new.array.pointer]
         /\ (op[t].kind = "shrink" /\ pc[t] = "drop_push" /\ pc'[t] # pc[t])
              => /\ old.array.capacity = Pow2(c)
                 /\ local_chain'[c][t] = SomeLocal(Append(Stash(c, t), old.array))
         /\ (op[t].kind = "shrink" /\ pc[t] = "drop_inc" /\ pc'[t] # pc[t])
              => /\ held'[t] = Append(held[t], op[t].new)
                 /\ local_chain' = local_chain]_vars

\* A handle of capacity 16 rented with a fabricator has been shrunk: the
\* caller holds a handle of capacity 8 with the first 8 elements, and the old
\* buffer is in the caller's stash of class 16.
C13_Witness ==
    \E t \in Threads : \E i \in 1..Len(held[t]) :
        LET h == held[t][i] IN
        /\ pc[t] = "idle"
        /\ h.chain = MinPower
        /\ h.array.capacity = Pow2(MinPower)
        /\ \A j \in 1..Pow2(MinPower) : mem[h.array.pointer][j] = Slot("L", fabricate(j))
        /\ HasLocal(MinPower + 1, t)
        /\ Len(Stash(MinPower + 1, t)) = 1

\* The slots of memory m after the first n slots of buffers a and b, both in
\* m, have changed places.
Exchanged(m, a, b, n) ==
    [q \in DOMAIN m |->
        [i \in DOMAIN m[q] |->
            IF i <= n /\ q = a THEN m[b][i]
            ELSE IF i <= n /\ q = b THEN m[a][i]
            ELSE m[q][i]]]

\* Thread t takes this step.
StepOf(t) == pc'[t] # pc[t] \/ op'[t] # op[t]

\* C14: expand_buffer and shrink_buffer, once they have a new buffer, destruct
\* no element: the elements only change places between the two buffers, the
\* old handle is marked not live before it is dropped, and its drop runs no
\* destructor.
C14_NoDestructorInResize ==
    [][\A t \in Threads :
         (op[t].kind \in Resizes /\ StepOf(t))
           => /\ faults' = faults
              /\ (pc[t] \in RentPcs /\ pc'[t] \notin RentPcs)
                   => LET old == op[t].old.array
                          new == IF pc'[t] = "idle" THEN Returned(t).array
                                 ELSE op'[t].new.array
                          n == IF op[t].kind = "shrink"
                               THEN old.capacity \div 2 ELSE old.capacity
                          m == IF new.pointer <= Len(mem) THEN mem
                               ELSE Append(mem, [i \in 1..new.capacity |-> Slot("U", 0)])
                      IN /\ pc'[t] = "idle" <=> is_empty(old)
                         /\ pc'[t] # "idle" => ~op'[t].old.initialized
                         /\ mem' = IF n = 0 THEN m
                                   ELSE Exchanged(m, old.pointer, new.pointer, n)
              /\ (pc[t] \in DropPcs) => mem' = mem /\ ~op[t].old.initialized
              /\ (pc[t] \in RentPcs /\ pc'[t] \in RentPcs /\ pc[t] # "rent_new")
                   => mem' = mem]_vars

\* An expand_buffer or shrink_buffer of a live handle is releasing the old
\* buffer: its elements sit constructed in the new buffer.
C14_Witness ==
    \E t \in Threads :
        /\ pc[t] = "drop_push"
        /\ op[t].kind = "shrink"
        /\ ~op[t].old.initialized
        /\ \A j \in 1..op[t].new.array.capacity :
               mem[op[t].new.array.pointer][j] = Slot("L", fabricate(j))
        /\ faults = {}

\* C15: after expand_buffer or shrink_buffer every element that was
\* constructed in the old buffer is in the returned buffer (the calls destruct
\* none), and the old buffer goes onto the stash with no constructed element
\* left in it.
C15_NoLeakInResize ==
    [][\A t \in Threads :
         (op[t].kind \in Resizes /\ StepOf(t))
           => /\ (pc[t] \in RentPcs /\ pc'[t] \in DropPcs)
                   => \A i \in 1..op[t].old.array.capacity :
                        Live(mem[op[t].old.array.pointer][i])
                          => /\ i <= op'[t].new.array.capacity
                             /\ mem'[op'[t].new.array.pointer][i] =
                                    mem[op[t].old.array.pointer][i]
              /\ (pc[t] = "drop_push")
                   => \A i \in 1..op[t].old.array.capacity :
                        ~Live(mem[op[t].old.array.pointer][i])]_vars

\* C16: rent_empty returns a handle of capacity 0 on the empty buffer, marked
\* live, and allocates nothing; dropping that handle is a no-op: no destructor
\* runs, nothing is pushed, no stash or registry entry is created and no
\* counter changes.
C16_EmptyHandle ==
    [][\A t \in Threads :
         /\ (CallBy(t) /\ rent_empty(t))
              => /\ pc'[t] = "idle"
                 /\ held'[t] = Append(held[t], Returned(t))
                 /\ Returned(t).array = RawBuffer_empty
                 /\ Returned(t).array.capacity = 0
                 /\ Returned(t).initialized
                 /\ mem' = mem
                 /\ poolvars' = poolvars
         /\ (CallBy(t) /\ drop(t))
              => \E u \in Threads : \E i \in 1..Len(held[u]) :
                   /\ held' = Without(u, i)
                   /\ is_empty(held[u][i].array)
                        => /\ pc'[t] = "idle"
                           /\ mem' = mem
                           /\ faults' = faults
                           /\ poolvars' = poolvars]_vars

\* An empty handle has been rented and dropped (two calls, neither failed and
\* no handle is left): nothing was allocated and no thread has a stash.
C16_Witness ==
    /\ calls = 2
    /\ Quiescent
    /\ \A t \in Threads : op[t].res = ""
    /\ mem = <<>>
    /\ \A c \in Chains : \A t \in Threads : ~HasLocal(c, t)
    /\ \A c \in Chains : chains[c] = {} /\ chunk_count[c] = 0

\* C17: the clone of a live handle, of any capacity, zero included, is a
\* handle on the same chain with the same capacity, marked live, whose every
\* slot holds a copy of the handle's element at that index; the handle itself
\* is unchanged.
C17_CloneEqualsOriginal ==
    [][\A t \in Threads :
         (/\ op[t].kind = "clone"
          /\ op[t].old.initialized
          /\ pc[t] \in RentPcs
          /\ pc'[t] = "idle")
           => LET old == op[t].old
                  new == Returned(t)
              IN
              /\ held'[t] = held[t] \o <<old, new>>
              /\ new.chain = old.chain
              /\ new.initialized
              /\ new.array.capacity = old.array.capacity
              /\ \A i \in 1..old.array.capacity :
                    /\ mem'[new.array.pointer][i] = mem[old.array.pointer][i]
                    /\ mem'[old.array.pointer][i] = mem[old.array.pointer][i]]_vars

\* The chains of the stash locks, and of the registry locks, thread t holds.
StashLocks(t) == {c \in Chains : \E u \in Threads : list_lock[c][u] = t}
RegistryLocks(t) == {c \in Chains : chains_lock[c] = t}

\* Where a thread's next step takes, or waits for, a registry lock: a call's
\* get_local, the scan's self.chains.lock(), the drop's get_local.
RegistryEntries == {"idle", "scan_lock", "drop_get_local"}

\* C18: a thread that holds a stash lock is not about to take or wait for a
\* registry lock, and the locks a thread holds all belong to one chain, during
\* expand_buffer and shrink_buffer too.
C18_LockDiscipline ==
    \A t \in Threads :
        /\ StashLocks(t) # {} => pc[t] \notin RegistryEntries
        /\ Cardinality(StashLocks(t) \cup RegistryLocks(t)) <= 1

\* A scan in progress inside shrink_buffer: the thread holds the registry lock
\* of the chain it rents on and the lock of another thread's stash of it.
C18_Witness ==
    \E t \in Threads : \E u \in Threads \ {t} :
        /\ op[t].kind = "shrink"
        /\ pc[t] = "scan_dec"
        /\ chains_lock[op[t].chain] = t
        /\ list_lock[op[t].chain][u] = t

C20_ColdRentTakesNoLock ==
    [][\A t \in Threads :
         /\ (/\ op[t].kind = "rent"
             /\ pc[t] = "rent_load"
             /\ StepOf(t)
             /\ chunk_count[op[t].chain] = 0)
              => /\ pc'[t] = "rent_new"
                 /\ ~op[t].locked
                 /\ ~op'[t].locked
                 /\ chains_lock' = chains_lock
                 /\ list_lock' = list_lock
         /\ (/\ op[t].kind = "rent"
             /\ pc[t] = "rent_new"
             /\ StepOf(t)
             /\ ~op[t].locked)
              => /\ pc'[t] = "idle"
                 /\ Len(mem') = Len(mem) + 1
                 /\ Returned(t).array.pointer = Len(mem')
                 /\ chains_lock' = chains_lock
                 /\ list_lock' = list_lock]_vars

\* The elements of a sequence, and whether it ascends strictly.
Range(q) == {q[i] : i \in DOMAIN q}
Ascending(q) == \A i \in DOMAIN q : \A j \in DOMAIN q : i < j => q[i] < q[j]

StashedAt(p) ==
    UNION {{<<c, t, i>> : i \in {j \in 1..Len(Stash(c, t)) : Stash(c, t)[j].pointer = p}} :
              <<c, t>> \in {y \in Chains \X Threads : HasLocal(y[1], y[2])}}

HeldAt(p) ==
    UNION {{<<t, i>> : i \in {j \in 1..Len(held[t]) : held[t][j].array.pointer = p}} :
              t \in Threads}

\* The locals of the running calls that hold the buffer at address p: the
\* handle a call works on (self of a drop or a clone, old_buffer and
\* new_buffer of expand_buffer and shrink_buffer) and the buffer a rent has
\* popped and not yet put into the handle it returns.
LocalsAt(p) ==
    {x \in Threads \X {"array", "old", "new"} :
        LET t == x[1] IN
        \/ /\ x[2] = "array"
           /\ pc[t] \in {"rent_local_dec", "scan_dec", "scan_end"}
           /\ op[t].array.pointer = p
        \/ /\ x[2] = "old"
           /\ \/ pc[t] \in DropPcs
              \/ pc[t] \in RentPcs /\ op[t].kind \in Resizes \cup {"clone"}
           /\ op[t].old.array.pointer = p
        \/ /\ x[2] = "new"
           /\ pc[t] \in DropPcs
           /\ op[t].kind \in Resizes
           /\ op[t].new.array.pointer = p}

\* No call is running.
NoneInside == \A t \in Threads : pc[t] \in {"idle", "exited"}

\* C22: every buffer that is allocated and not deallocated is in exactly one
\* place: in one handle (one a thread holds, or the one a running call works
\* on or is building) or once in one stash; none is in two handles, none in a
\* handle and in a stash, none twice in the stashes. A deallocated buffer is
\* nowhere.
C22_ExclusiveOwnership ==
    \A p \in 1..Len(mem) :
        LET handles == Cardinality(HeldAt(p)) + Cardinality(LocalsAt(p))
            stashed == Cardinality(StashedAt(p))
        IN
        /\ handles <= 1
        /\ stashed <= 1
        /\ handles + stashed = (IF mem[p] = <<>> THEN 0 ELSE 1)
        /\ NoneInside => Cardinality(HeldAt(p)) + stashed = (IF mem[p] = <<>> THEN 0 ELSE 1)

\* A scan has popped the buffer of another thread's stash, which is in no
\* stash any more, while a thread holds a handle on another buffer.
C22_Witness ==
    \E t \in Threads : \E u \in Threads \ {t} :
        /\ pc[t] = "scan_dec"
        /\ HasLocal(op[t].chain, u)
        /\ list_lock[op[t].chain][u] = t
        /\ Cardinality(LocalsAt(op[t].array.pointer)) = 1
        /\ StashedAt(op[t].array.pointer) = {}
        /\ \E v \in Threads : held[v] # <<>>

\* The pops on chain c whose fetch_sub is still to come, and the pushes whose
\* fetch_add is still to come.
PendingPops(c) ==
    {t \in Threads : pc[t] \in {"rent_local_dec", "scan_dec"} /\ op[t].chain = c}

PendingPushes(c) ==
    {t \in Threads : pc[t] = "drop_inc" /\ op[t].old.chain = c}

\* C23: the counter of a chain is the number of buffers in the chain's
\* stashes, plus the pops whose decrement is still to come, minus the pushes
\* whose increment is still to come; it is never below zero; and when no
\* thread is inside an operation it is the number of buffers in the chain's
\* stashes, after a stash has been destroyed too.
C23_CounterMatchesStashes ==
    \A c \in Chains :
        /\ chunk_count[c] = InStashes(c) + Cardinality(PendingPops(c))
                                - Cardinality(PendingPushes(c))
        /\ chunk_count[c] >= 0
        /\ NoneInside => chunk_count[c] = InStashes(c)

\* A stash that held a buffer has been destroyed and another stash holds a
\* buffer released since; no call is running.
C23_Witness ==
    /\ NoneInside
    /\ mem # <<>>
    /\ mem[1] = <<>>
    /\ \E u \in Threads : pc[u] = "exited"
    /\ \E t \in Threads :
          /\ HasLocal(MinPower, t)
          /\ Len(Stash(MinPower, t)) = 1
          /\ chunk_count[MinPower] = 1

====
